---- MODULE Spec2Model ----
(***************************************************************************)
(* The aggregating gateway of gnatt (gateway/gate/agggateway.go): the      *)
(* dispatcher OnPacket with its per-type handlers, the broker callback     *)
(* distribute and the per-subscriber goroutine publish.                    *)
(*                                                                         *)
(* Every inbound datagram is handled by a goroutine of its own, and every  *)
(* broker delivery starts one goroutine per matching subscriber.  A        *)
(* goroutine is a record with a program counter; one action is one         *)
(* synchronised call (a registry, tree or session method, each guarded by  *)
(* its own lock), one datagram write or one broker call of the handler.    *)
(* GetClient is a read of the session registry whose result (a pointer)    *)
(* is used by the next session call; it is taken together with that call,  *)
(* which commutes with every AddClient of another goroutine.               *)
(*                                                                         *)
(* The topic registry (topicNames), the subscription tree (TopicTree) and  *)
(* the sessions (Clients, Client) are declared outside agggateway.go;      *)
(* their methods are modelled from the specification's sections 3 and 4.   *)
(***************************************************************************)
EXTENDS Integers, Sequences, FiniteSets, TLC

VARIABLES
    tIndex,      \* ag.tIndex: [contents: id -> name, next_id]
    tTree,       \* ag.tTree: filter -> set of subscribed sessions
    clients,     \* ag.clients: endpoint -> session (0: none)
    sessions,    \* the Client objects ever made by NewClient, by handle
    hs,          \* the OnPacket goroutines, in order of arrival
    gs,          \* the publish goroutines started by distribute
    dlvs,        \* the messages the broker delivered (distribute calls), in order
    out,         \* datagrams written to each endpoint, in order
    pubs,        \* ag.mqttclient.Publish calls made, in order
    bsub,        \* upstream subscription of each filter: none, req, conf
    startCalls,  \* StartSubscription calls made per filter
    firsts,      \* AddSubscription calls that returned first = true, per filter
    parked,      \* every (session, message) publish() parked, in order
    net,         \* each endpoint's link: ok, err (writes fail), block
    acked,       \* REGISTERs of the gateway each client has answered
    crashed      \* an unrecovered panic has ended the process

vars == <<tIndex, tTree, clients, sessions, hs, gs, dlvs, out, pubs, bsub,
          startCalls, firsts, parked, net, acked, crashed>>

----------------------------------------------------------------------------
(* Bounds of the model *)

MaxPackets == 2
MaxDeliveries == 2
MaxTopicId == 1
MaxFanDeliveries == 1
MaxStrayRegacks == 1

(* uint16 topic ids: next_id wraps at 2^16 *)
IdModulus == 65536

Endpoints == {"e1", "e2", "e3"}
Payloads == {"p1", "p2"}
MsgIds == {7}
ClientIds == {"dev1", ""}

(* Topic names and filters, as their segments between the separators *)
AB == <<"a", "b">>
AC == <<"a", "c">>
AHash == <<"a", "#">>
HashA == <<"#", "a">>
Names == {AB, AC}
Filters == {AB, AC, AHash, HashA}
NoTopic == <<>>
TopicIds == 0..MaxTopicId

----------------------------------------------------------------------------
(* Messages *)

NoPM == [topicid |-> 0, data |-> "", dlv |-> 0]

(* NewPublishMessage(dup, ret, qos, topicidtype, topicid, msgid, pay) for  *)
(* broker delivery number d; dup, ret, qos and msgid are passed through.   *)
NewPublishMessage(topicid, pay, d) == [topicid |-> topicid, data |-> pay, dlv |-> d]

Datagram(t, topicid, msgid, name, data, d, note) ==
    [type |-> t, topicid |-> topicid, msgid |-> msgid, name |-> name,
     data |-> data, dlv |-> d, note |-> note]

NewConnackMessage == Datagram("CONNACK", 0, 0, NoTopic, "", 0, "")
NewRegackMessage(topicid, msgid) == Datagram("REGACK", topicid, msgid, NoTopic, "", 0, "")
NewRegisterMessage(topicid, msgid, top, d) == Datagram("REGISTER", topicid, msgid, top, "", d, "")
NewSubackMessage(topicid, msgid, note) == Datagram("SUBACK", topicid, msgid, NoTopic, "", 0, note)
NewPingResp == Datagram("PINGRESP", 0, 0, NoTopic, "", 0, "")
PublishDatagram(pm, note) == Datagram("PUBLISH", pm.topicid, 0, NoTopic, pm.data, pm.dlv, note)

(* An inbound datagram as Unpack returns it *)
Packet(t, cid, topic, topicid, msgid, data) ==
    [typ |-> t, cid |-> cid, topic |-> topic, topicid |-> topicid,
     msgid |-> msgid, data |-> data]

ConnectPackets == {Packet("CONNECT", c, NoTopic, 0, 0, "") : c \in ClientIds}
RegisterPackets == {Packet("REGISTER", "", n, 0, m, "") : n \in Names, m \in MsgIds}
RegackPackets == {Packet("REGACK", "", NoTopic, t, 0, "") : t \in TopicIds}
PublishPackets == {Packet("PUBLISH", "", NoTopic, t, 0, d) : t \in TopicIds, d \in Payloads}
SubscribePackets == {Packet("SUBSCRIBE", "", f, 0, m, "") : f \in Filters, m \in MsgIds}
PingreqPackets == {Packet("PINGREQ", "", NoTopic, 0, 0, "")}
DisconnectPackets == {Packet("DISCONNECT", "", NoTopic, 0, 0, "")}
InertTypes == {"ADVERTISE", "SEARCHGW", "GWINFO", "CONNACK", "WILLTOPICREQ",
               "WILLTOPIC", "WILLMSGREQ", "WILLMSG", "PUBACK", "PUBCOMP",
               "PUBREC", "PUBREL", "SUBACK", "UNSUBSCRIBE", "UNSUBACK",
               "PINGRESP", "WILLTOPICUPD", "WILLTOPICRESP", "WILLMSGUPD",
               "WILLMSGRESP", "UNKNOWN"}
InertPackets == {Packet(t, "", NoTopic, 0, 0, "") : t \in InertTypes}

----------------------------------------------------------------------------
(* Topic registry (topicNames) *)

IdsOf(topic) == {i \in DOMAIN tIndex.contents : tIndex.contents[i] = topic}

containsTopic(topic) == IdsOf(topic) # {}

(* getId returns the id of the first entry found for the name, 0 if none;  *)
(* with several entries for one name any of them may be the first found.   *)
getIdResults(topic) == IF IdsOf(topic) = {} THEN {0} ELSE IdsOf(topic)

getTopic(id) == IF id \in DOMAIN tIndex.contents THEN tIndex.contents[id] ELSE NoTopic

(* putTopic: the next id is taken and recorded for the name *)
putTopicId == (tIndex.next_id + 1) % IdModulus

putTopic(topic) ==
    [contents |-> [i \in DOMAIN tIndex.contents \cup {putTopicId} |->
                      IF i = putTopicId THEN topic ELSE tIndex.contents[i]],
     next_id |-> putTopicId]

----------------------------------------------------------------------------
(* Subscription tree (TopicTree) *)

ContainsWildcard(topic) == \E i \in DOMAIN topic : topic[i] \in {"#", "+"}

RECURSIVE Match(_, _)
Match(f, t) ==
    IF f = <<>> THEN t = <<>>
    ELSE IF Head(f) = "#" THEN Len(f) = 1
    ELSE IF t = <<>> THEN FALSE
    ELSE (Head(f) = "+" \/ Head(f) = Head(t)) /\ Match(Tail(f), Tail(t))

(* AddSubscription(client, topic): first is true when the filter is new *)
AddSubscriptionFirst(topic) == tTree[topic] = {}

AddSubscription(client, topic) == [tTree EXCEPT ![topic] = @ \cup {client}]

SubscribersOf(topic) == UNION {tTree[f] : f \in {g \in Filters : Match(g, topic)}}

(* MQTT.NewTopicFilter accepts a filter whose "#" is its last segment *)
NewTopicFilterOk(topic) == \A i \in DOMAIN topic : topic[i] = "#" => i = Len(topic)

----------------------------------------------------------------------------
(* Sessions (Clients, Client) *)

validateClientId(cid) == cid # ""

NewClient(ep) == [addr |-> ep, registered |-> {}, pending |-> {}]

GetClient(ep) == clients[ep]

Registered(c, topicid) == topicid \in sessions[c].registered

Register(c, topicid) == [sessions EXCEPT ![c].registered = @ \cup {topicid}]

(* AddPendingMessage: the slot of the message's topic id is overwritten *)
AddPendingMessage(c, pm) ==
    [sessions EXCEPT ![c].pending =
        {p \in @ : p.topicid # pm.topicid} \cup {pm}]

PendingFor(c, topicid) == {p \in sessions[c].pending : p.topicid = topicid}

(* FetchPendingMessage: the slot's message (NoPM for nil), and the slot emptied *)
FetchPendingMessage(c, topicid) ==
    IF PendingFor(c, topicid) = {} THEN NoPM
    ELSE CHOOSE p \in PendingFor(c, topicid) : TRUE

RemovePending(c, topicid) ==
    [sessions EXCEPT ![c].pending = {p \in @ : p.topicid # topicid}]

----------------------------------------------------------------------------
(* Goroutines *)

H0 == [typ |-> "", ep |-> "", pc |-> "done", topic |-> NoTopic, topicid |-> 0,
       msgid |-> 0, data |-> "", client |-> 0, pm |-> NoPM, up |-> ""]

DoneH == H0

G0 == [pc |-> "done", dlv |-> 0, client |-> 0, top |-> NoTopic, data |-> "",
       topicid |-> 0, pm |-> NoPM]

Alive == ~crashed

(* client.Write / WriteToUDP: the datagram reaches the endpoint unless the *)
(* write fails; a blocked write does not return.                           *)
Write(ep, dg) ==
    /\ net[ep] # "block"
    /\ out' = IF net[ep] = "ok" THEN [out EXCEPT ![ep] = Append(@, dg)] ELSE out

Finish(h) == hs' = [hs EXCEPT ![h] = DoneH]

Goto(h, pc) == hs' = [hs EXCEPT ![h].pc = pc]

(* Faulty variant: the tree's lock is still held while waiting for the receipt *)
HeldAtWaitTree(h) == {"tTree", "tIndex"}

(* The locks a handler holds while it waits for a broker receipt           *)
(* (<-receipt): every registry, tree and session method releases its lock  *)
(* before it returns, so none.                                             *)
HeldAtWait(h) == {}

LocksHeld == UNION {HeldAtWait(h) : h \in {k \in DOMAIN hs : hs[k].pc \in {"s_wait", "p_wait"}}}

Free(locks) == locks \cap LocksHeld = {}

(* Faulty variant: publish is called in the loop, one subscriber after the other *)
CallPublish(g) ==
    /\ g \in DOMAIN gs
    /\ \A k \in 1..(g - 1) : gs[k].pc = "done"

(* go ag.publish(msg, client): the goroutine runs whatever the others do *)
GoPublish(g) == g \in DOMAIN gs

----------------------------------------------------------------------------
(* OnPacket: Unpack and the type switch; the handler's goroutine starts.   *)
(* The handlers that only log return at once, like a CONNECT whose client  *)
(* id validateClientId rejects.                                            *)

Dispatch(ep, m) ==
    LET h == [H0 EXCEPT !.typ = m.typ, !.ep = ep] IN
    CASE m.typ = "CONNECT" ->
           IF validateClientId(m.cid) THEN [h EXCEPT !.pc = "c_add"] ELSE DoneH
      [] m.typ = "REGISTER" ->
           [h EXCEPT !.pc = "r_contains", !.topic = m.topic, !.msgid = m.msgid]
      [] m.typ = "REGACK" ->
           [h EXCEPT !.pc = "a_fetch", !.topicid = m.topicid]
      [] m.typ = "PUBLISH" ->
           [h EXCEPT !.pc = "p_pub", !.topicid = m.topicid, !.data = m.data]
      [] m.typ = "SUBSCRIBE" ->
           [h EXCEPT !.pc = IF ContainsWildcard(m.topic) THEN "s_client" ELSE "s_getid",
                     !.topic = m.topic, !.msgid = m.msgid]
      [] m.typ = "PINGREQ" -> [h EXCEPT !.pc = "g_write"]
      [] OTHER -> DoneH

OnPacket(ep, m) ==
    /\ Alive
    /\ Len(hs) < MaxPackets
    /\ hs' = Append(hs, Dispatch(ep, m))
    /\ UNCHANGED <<tIndex, tTree, clients, sessions, gs, dlvs, out, pubs, bsub,
                   startCalls, firsts, parked, net, acked, crashed>>

(* GetClient(r) asserted to be a Client pointer, on an endpoint with no    *)
(* session: the type assertion on the nil interface panics, and nothing    *)
(* recovers.                                                               *)
Panic(h) ==
    /\ Alive
    /\ h \in DOMAIN hs
    /\ hs[h].pc \in {"r_client", "a_fetch", "s_client"}
    /\ Free({"clients"})
    /\ GetClient(hs[h].ep) = 0
    /\ crashed' = TRUE
    /\ UNCHANGED <<tIndex, tTree, clients, sessions, hs, gs, dlvs, out, pubs,
                   bsub, startCalls, firsts, parked, net, acked>>

(* A client answers the gateway's next unanswered REGISTER with a REGACK   *)
(* for its topic id                                                        *)
Registers(ep) == SelectSeq(out[ep], LAMBDA dg : dg.type = "REGISTER")

ClientRegack(ep) ==
    /\ Alive
    /\ acked[ep] < Len(Registers(ep))
    /\ acked' = [acked EXCEPT ![ep] = @ + 1]
    /\ hs' = Append(hs, Dispatch(ep, Packet("REGACK", "", NoTopic,
                                            Registers(ep)[acked[ep] + 1].topicid, 0, "")))
    /\ UNCHANGED <<tIndex, tTree, clients, sessions, gs, dlvs, out, pubs, bsub,
                   startCalls, firsts, parked, net, crashed>>

----------------------------------------------------------------------------
(* handle_CONNECT *)

CONNECT_AddClient(h) ==
    /\ Alive
    /\ h \in DOMAIN hs
    /\ hs[h].pc = "c_add"
    /\ Free({"clients"})
    /\ sessions' = Append(sessions, NewClient(hs[h].ep))
    /\ clients' = [clients EXCEPT ![hs[h].ep] = Len(sessions) + 1]
    /\ hs' = [hs EXCEPT ![h].pc = "c_write", ![h].client = Len(sessions) + 1]
    /\ UNCHANGED <<tIndex, tTree, gs, dlvs, out, pubs, bsub, startCalls, firsts,
                   parked, net, acked, crashed>>

(* Faulty variant: CONNACK is written before the session is added *)
CONNECT_WriteEarly(h) ==
    /\ Alive
    /\ h \in DOMAIN hs
    /\ hs[h].pc = "c_add"
    /\ Write(hs[h].ep, NewConnackMessage)
    /\ Finish(h)
    /\ UNCHANGED <<tIndex, tTree, clients, sessions, gs, dlvs, pubs, bsub,
                   startCalls, firsts, parked, net, acked, crashed>>

CONNECT_Write(h) ==
    /\ Alive
    /\ h \in DOMAIN hs
    /\ hs[h].pc = "c_write"
    /\ Write(sessions[hs[h].client].addr, NewConnackMessage)
    /\ Finish(h)
    /\ UNCHANGED <<tIndex, tTree, clients, sessions, gs, dlvs, pubs, bsub,
                   startCalls, firsts, parked, net, acked, crashed>>

----------------------------------------------------------------------------
(* handle_REGISTER *)

REGISTER_containsTopic(h) ==
    /\ Alive
    /\ h \in DOMAIN hs
    /\ hs[h].pc = "r_contains"
    /\ Free({"tIndex"})
    /\ Goto(h, IF containsTopic(hs[h].topic) THEN "r_get" ELSE "r_put")
    /\ UNCHANGED <<tIndex, tTree, clients, sessions, gs, dlvs, out, pubs, bsub,
                   startCalls, firsts, parked, net, acked, crashed>>

(* Faulty variant: the id returned is the counter before its increment *)
REGISTER_putTopicStale(h) ==
    /\ Alive
    /\ h \in DOMAIN hs
    /\ hs[h].pc = "r_put"
    /\ Free({"tIndex"})
    /\ tIndex' = putTopic(hs[h].topic)
    /\ hs' = [hs EXCEPT ![h].pc = "r_client", ![h].topicid = tIndex.next_id]
    /\ UNCHANGED <<tTree, clients, sessions, gs, dlvs, out, pubs, bsub,
                   startCalls, firsts, parked, net, acked, crashed>>

REGISTER_putTopic(h) ==
    /\ Alive
    /\ h \in DOMAIN hs
    /\ hs[h].pc = "r_put"
    /\ Free({"tIndex"})
    /\ tIndex' = putTopic(hs[h].topic)
    /\ hs' = [hs EXCEPT ![h].pc = "r_client", ![h].topicid = putTopicId]
    /\ UNCHANGED <<tTree, clients, sessions, gs, dlvs, out, pubs, bsub,
                   startCalls, firsts, parked, net, acked, crashed>>

REGISTER_getId(h) ==
    /\ Alive
    /\ h \in DOMAIN hs
    /\ hs[h].pc = "r_get"
    /\ Free({"tIndex"})
    /\ \E id \in getIdResults(hs[h].topic) :
          hs' = [hs EXCEPT ![h].pc = "r_client", ![h].topicid = id]
    /\ UNCHANGED <<tIndex, tTree, clients, sessions, gs, dlvs, out, pubs, bsub,
                   startCalls, firsts, parked, net, acked, crashed>>

(* Faulty variant: the id is not registered on the session *)
REGISTER_RegisterSkipped(h) ==
    /\ Alive
    /\ h \in DOMAIN hs
    /\ hs[h].pc = "r_client"
    /\ Free({"clients", "client"})
    /\ GetClient(hs[h].ep) # 0
    /\ hs' = [hs EXCEPT ![h].pc = "r_write", ![h].client = GetClient(hs[h].ep)]
    /\ UNCHANGED <<tIndex, tTree, clients, sessions, gs, dlvs, out, pubs, bsub,
                   startCalls, firsts, parked, net, acked, crashed>>

REGISTER_Register(h) ==
    /\ Alive
    /\ h \in DOMAIN hs
    /\ hs[h].pc = "r_client"
    /\ Free({"clients", "client"})
    /\ GetClient(hs[h].ep) # 0
    /\ sessions' = Register(GetClient(hs[h].ep), hs[h].topicid)
    /\ hs' = [hs EXCEPT ![h].pc = "r_write", ![h].client = GetClient(hs[h].ep)]
    /\ UNCHANGED <<tIndex, tTree, clients, gs, dlvs, out, pubs, bsub,
                   startCalls, firsts, parked, net, acked, crashed>>

REGISTER_Write(h) ==
    /\ Alive
    /\ h \in DOMAIN hs
    /\ hs[h].pc = "r_write"
    /\ Write(sessions[hs[h].client].addr, NewRegackMessage(hs[h].topicid, hs[h].msgid))
    /\ Finish(h)
    /\ UNCHANGED <<tIndex, tTree, clients, sessions, gs, dlvs, pubs, bsub,
                   startCalls, firsts, parked, net, acked, crashed>>

----------------------------------------------------------------------------
(* handle_REGACK *)

(* Faulty variant: the nil check is dropped and the fetched value always written *)
PendingFoundAlways(pm) == TRUE

(* Faulty variant: the fetched message is never written *)
PendingFoundNever(pm) == FALSE

(* if pm == nil { log } else { client.Write(pm) } *)
PendingFound(pm) == pm # NoPM

REGACK_Fetch(h) ==
    /\ Alive
    /\ h \in DOMAIN hs
    /\ hs[h].pc = "a_fetch"
    /\ Free({"clients", "client"})
    /\ GetClient(hs[h].ep) # 0
    /\ LET c == GetClient(hs[h].ep)
           pm == FetchPendingMessage(c, hs[h].topicid)
       IN /\ sessions' = RemovePending(c, hs[h].topicid)
          /\ hs' = IF ~PendingFound(pm)
                   THEN [hs EXCEPT ![h] = DoneH]
                   ELSE [hs EXCEPT ![h].pc = "a_write", ![h].client = c, ![h].pm = pm]
    /\ UNCHANGED <<tIndex, tTree, clients, gs, dlvs, out, pubs, bsub,
                   startCalls, firsts, parked, net, acked, crashed>>

(* Faulty variant: the acknowledged id is also marked registered *)
REGACK_WriteAndRegister(h) ==
    /\ Alive
    /\ h \in DOMAIN hs
    /\ hs[h].pc = "a_write"
    /\ Write(sessions[hs[h].client].addr, PublishDatagram(hs[h].pm, "regack"))
    /\ sessions' = Register(hs[h].client, hs[h].topicid)
    /\ Finish(h)
    /\ UNCHANGED <<tIndex, tTree, clients, gs, dlvs, pubs, bsub,
                   startCalls, firsts, parked, net, acked, crashed>>

REGACK_Write(h) ==
    /\ Alive
    /\ h \in DOMAIN hs
    /\ hs[h].pc = "a_write"
    /\ Write(sessions[hs[h].client].addr, PublishDatagram(hs[h].pm, "regack"))
    /\ Finish(h)
    /\ UNCHANGED <<tIndex, tTree, clients, sessions, gs, dlvs, pubs, bsub,
                   startCalls, firsts, parked, net, acked, crashed>>

----------------------------------------------------------------------------
(* handle_PUBLISH *)

PUBLISH_Publish(h) ==
    /\ Alive
    /\ h \in DOMAIN hs
    /\ hs[h].pc = "p_pub"
    /\ Free({"tIndex"})
    /\ pubs' = Append(pubs, [topic |-> getTopic(hs[h].topicid), data |-> hs[h].data,
                             from |-> hs[h].ep, topicid |-> hs[h].topicid])
    /\ Goto(h, "p_wait")
    /\ UNCHANGED <<tIndex, tTree, clients, sessions, gs, dlvs, out, bsub,
                   startCalls, firsts, parked, net, acked, crashed>>

(* <-receipt: the broker's receipt of the publish arrives *)
PUBLISH_Receipt(h) ==
    /\ Alive
    /\ h \in DOMAIN hs
    /\ hs[h].pc = "p_wait"
    /\ Finish(h)
    /\ UNCHANGED <<tIndex, tTree, clients, sessions, gs, dlvs, out, pubs, bsub,
                   startCalls, firsts, parked, net, acked, crashed>>

----------------------------------------------------------------------------
(* handle_SUBSCRIBE (topic id type 0) *)

SUBSCRIBE_getId(h) ==
    /\ Alive
    /\ h \in DOMAIN hs
    /\ hs[h].pc = "s_getid"
    /\ Free({"tIndex"})
    /\ \E id \in getIdResults(hs[h].topic) :
          hs' = [hs EXCEPT ![h].pc = IF id = 0 THEN "s_put" ELSE "s_client",
                           ![h].topicid = id]
    /\ UNCHANGED <<tIndex, tTree, clients, sessions, gs, dlvs, out, pubs, bsub,
                   startCalls, firsts, parked, net, acked, crashed>>

SUBSCRIBE_putTopic(h) ==
    /\ Alive
    /\ h \in DOMAIN hs
    /\ hs[h].pc = "s_put"
    /\ Free({"tIndex"})
    /\ tIndex' = putTopic(hs[h].topic)
    /\ hs' = [hs EXCEPT ![h].pc = "s_client", ![h].topicid = putTopicId]
    /\ UNCHANGED <<tTree, clients, sessions, gs, dlvs, out, pubs, bsub,
                   startCalls, firsts, parked, net, acked, crashed>>

(* Faulty variant: every subscriber starts an upstream subscription *)
NeedsUpstreamAlways(first) == TRUE

(* if first { ... }: the upstream subscription is made for a first subscriber *)
NeedsUpstream(first) == first

SUBSCRIBE_AddSubscription(h) ==
    /\ Alive
    /\ h \in DOMAIN hs
    /\ hs[h].pc = "s_client"
    /\ Free({"clients", "tTree"})
    /\ GetClient(hs[h].ep) # 0
    /\ LET c == GetClient(hs[h].ep)
           first == AddSubscriptionFirst(hs[h].topic)
       IN /\ tTree' = AddSubscription(c, hs[h].topic)
          /\ firsts' = IF first THEN [firsts EXCEPT ![hs[h].topic] = @ + 1] ELSE firsts
          /\ hs' = [hs EXCEPT ![h].client = c,
                              ![h].pc = IF NeedsUpstream(first) THEN "s_upstream"
                                        ELSE "s_register"]
    /\ UNCHANGED <<tIndex, clients, sessions, gs, dlvs, out, pubs, bsub,
                   startCalls, parked, net, acked, crashed>>

(* MQTT.NewTopicFilter, then ag.mqttclient.StartSubscription, which either *)
(* fails or hands back the receipt channel                                 *)
SUBSCRIBE_Upstream(h) ==
    /\ Alive
    /\ h \in DOMAIN hs
    /\ hs[h].pc = "s_upstream"
    /\ IF ~NewTopicFilterOk(hs[h].topic)
       THEN /\ hs' = [hs EXCEPT ![h].pc = "s_register", ![h].up = "fail"]
            /\ UNCHANGED <<bsub, startCalls>>
       ELSE /\ startCalls' = [startCalls EXCEPT ![hs[h].topic] = @ + 1]
            /\ \E sserr \in BOOLEAN :
                  IF sserr
                  THEN /\ hs' = [hs EXCEPT ![h].pc = "s_register", ![h].up = "fail"]
                       /\ UNCHANGED bsub
                  ELSE /\ hs' = [hs EXCEPT ![h].pc = "s_wait"]
                       /\ bsub' = [bsub EXCEPT ![hs[h].topic] =
                                      IF @ = "none" THEN "req" ELSE @]
    /\ UNCHANGED <<tIndex, tTree, clients, sessions, gs, dlvs, out, pubs,
                   firsts, parked, net, acked, crashed>>

(* <-receipt: the broker's confirmation of the subscription arrives *)
SUBSCRIBE_Receipt(h) ==
    /\ Alive
    /\ h \in DOMAIN hs
    /\ hs[h].pc = "s_wait"
    /\ bsub' = [bsub EXCEPT ![hs[h].topic] = "conf"]
    /\ hs' = [hs EXCEPT ![h].pc = "s_register", ![h].up = "ok"]
    /\ UNCHANGED <<tIndex, tTree, clients, sessions, gs, dlvs, out, pubs,
                   startCalls, firsts, parked, net, acked, crashed>>

SUBSCRIBE_Register(h) ==
    /\ Alive
    /\ h \in DOMAIN hs
    /\ hs[h].pc = "s_register"
    /\ Free({"client"})
    /\ sessions' = Register(hs[h].client, hs[h].topicid)
    /\ Goto(h, "s_write")
    /\ UNCHANGED <<tIndex, tTree, clients, gs, dlvs, out, pubs, bsub,
                   startCalls, firsts, parked, net, acked, crashed>>

SUBSCRIBE_Write(h) ==
    /\ Alive
    /\ h \in DOMAIN hs
    /\ hs[h].pc = "s_write"
    /\ Write(hs[h].ep, NewSubackMessage(hs[h].topicid, hs[h].msgid, hs[h].up))
    /\ Finish(h)
    /\ UNCHANGED <<tIndex, tTree, clients, sessions, gs, dlvs, pubs, bsub,
                   startCalls, firsts, parked, net, acked, crashed>>

----------------------------------------------------------------------------
(* handle_PINGREQ *)

(* Faulty variant: the PINGRESP is written twice *)
PINGREQ_WriteTwice(h) ==
    /\ Alive
    /\ h \in DOMAIN hs
    /\ hs[h].pc = "g_write"
    /\ net[hs[h].ep] # "block"
    /\ out' = [out EXCEPT ![hs[h].ep] = @ \o <<NewPingResp, NewPingResp>>]
    /\ Finish(h)
    /\ UNCHANGED <<tIndex, tTree, clients, sessions, gs, dlvs, pubs, bsub,
                   startCalls, firsts, parked, net, acked, crashed>>

PINGREQ_Write(h) ==
    /\ Alive
    /\ h \in DOMAIN hs
    /\ hs[h].pc = "g_write"
    /\ Write(hs[h].ep, NewPingResp)
    /\ Finish(h)
    /\ UNCHANGED <<tIndex, tTree, clients, sessions, gs, dlvs, pubs, bsub,
                   startCalls, firsts, parked, net, acked, crashed>>

----------------------------------------------------------------------------
(* distribute: the broker delivers a message on a topic of one of the      *)
(* gateway's upstream subscriptions; one publish goroutine per subscriber  *)

RECURSIVE SetToSeq(_)
SetToSeq(S) ==
    IF S = {} THEN <<>>
    ELSE LET x == CHOOSE y \in S : \A z \in S : y <= z
         IN <<x>> \o SetToSeq(S \ {x})

Spawn(top, data, d) ==
    LET cs == SetToSeq(SubscribersOf(top))
    IN [i \in 1..Len(cs) |->
           [G0 EXCEPT !.pc = "getid", !.dlv = d, !.client = cs[i], !.top = top,
                      !.data = data]]

distribute(top, data) ==
    /\ Alive
    /\ Len(dlvs) < MaxDeliveries
    /\ \E f \in Filters : bsub[f] # "none" /\ Match(f, top)
    /\ Free({"tTree"})
    /\ dlvs' = Append(dlvs, [top |-> top, data |-> data])
    /\ gs' = gs \o Spawn(top, data, Len(dlvs) + 1)
    /\ UNCHANGED <<tIndex, tTree, clients, sessions, hs, out, pubs, bsub,
                   startCalls, firsts, parked, net, acked, crashed>>

----------------------------------------------------------------------------
(* publish *)

publish_getId(g) ==
    /\ Alive
    /\ GoPublish(g)
    /\ gs[g].pc = "getid"
    /\ Free({"tIndex"})
    /\ \E id \in getIdResults(gs[g].top) :
          gs' = [gs EXCEPT ![g].pc = "check", ![g].topicid = id,
                           ![g].pm = NewPublishMessage(id, gs[g].data, gs[g].dlv)]
    /\ UNCHANGED <<tIndex, tTree, clients, sessions, hs, dlvs, out, pubs, bsub,
                   startCalls, firsts, parked, net, acked, crashed>>

publish_Registered(g) ==
    /\ Alive
    /\ GoPublish(g)
    /\ gs[g].pc = "check"
    /\ Free({"client"})
    /\ gs' = [gs EXCEPT ![g].pc = IF Registered(gs[g].client, gs[g].topicid)
                                  THEN "write_pm" ELSE "add_pending"]
    /\ UNCHANGED <<tIndex, tTree, clients, sessions, hs, dlvs, out, pubs, bsub,
                   startCalls, firsts, parked, net, acked, crashed>>

publish_WritePublish(g) ==
    /\ Alive
    /\ GoPublish(g)
    /\ gs[g].pc = "write_pm"
    /\ Write(sessions[gs[g].client].addr, PublishDatagram(gs[g].pm, "direct"))
    /\ gs' = [gs EXCEPT ![g].pc = "done"]
    /\ UNCHANGED <<tIndex, tTree, clients, sessions, hs, dlvs, pubs, bsub,
                   startCalls, firsts, parked, net, acked, crashed>>

publish_AddPendingMessage(g) ==
    /\ Alive
    /\ GoPublish(g)
    /\ gs[g].pc = "add_pending"
    /\ Free({"client"})
    /\ sessions' = AddPendingMessage(gs[g].client, gs[g].pm)
    /\ parked' = Append(parked, [client |-> gs[g].client, pm |-> gs[g].pm])
    /\ gs' = [gs EXCEPT ![g].pc = "write_rm"]
    /\ UNCHANGED <<tIndex, tTree, clients, hs, dlvs, out, pubs, bsub,
                   startCalls, firsts, net, acked, crashed>>

publish_WriteRegister(g) ==
    /\ Alive
    /\ GoPublish(g)
    /\ gs[g].pc = "write_rm"
    /\ Write(sessions[gs[g].client].addr,
             NewRegisterMessage(gs[g].topicid, 0, gs[g].top, gs[g].dlv))
    /\ gs' = [gs EXCEPT ![g].pc = "done"]
    /\ UNCHANGED <<tIndex, tTree, clients, sessions, hs, dlvs, pubs, bsub,
                   startCalls, firsts, parked, net, acked, crashed>>
----------------------------------------------------------------------------
(* Initial states *)

EmptyIndex == [contents |-> [i \in {} |-> NoTopic], next_id |-> 0]

(* The state NewAggGate leaves: empty registry, tree and session registry *)
Init ==
    /\ tIndex = EmptyIndex
    /\ tTree = [f \in Filters |-> {}]
    /\ clients = [e \in Endpoints |-> 0]
    /\ sessions = <<>>
    /\ hs = <<>>
    /\ gs = <<>>
    /\ dlvs = <<>>
    /\ out = [e \in Endpoints |-> <<>>]
    /\ pubs = <<>>
    /\ bsub = [f \in Filters |-> "none"]
    /\ startCalls = [f \in Filters |-> 0]
    /\ firsts = [f \in Filters |-> 0]
    /\ parked = <<>>
    /\ net \in [Endpoints -> {"ok"}]
    /\ acked = [e \in Endpoints |-> 0]
    /\ crashed = FALSE

(* The gateway after CONNECT from e1 and from e2 has been handled *)
InitConnected ==
    /\ tIndex = EmptyIndex
    /\ tTree = [f \in Filters |-> {}]
    /\ clients = [e \in Endpoints |-> CASE e = "e1" -> 1 [] e = "e2" -> 2 [] OTHER -> 0]
    /\ sessions = <<NewClient("e1"), NewClient("e2")>>
    /\ hs = <<>>
    /\ gs = <<>>
    /\ dlvs = <<>>
    /\ out = [e \in Endpoints |-> IF e \in {"e1", "e2"} THEN <<NewConnackMessage>> ELSE <<>>]
    /\ pubs = <<>>
    /\ bsub = [f \in Filters |-> "none"]
    /\ startCalls = [f \in Filters |-> 0]
    /\ firsts = [f \in Filters |-> 0]
    /\ parked = <<>>
    /\ net \in [Endpoints -> {"ok"}]
    /\ acked = [e \in Endpoints |-> 0]
    /\ crashed = FALSE

(* The gateway after, further, SUBSCRIBE "a/#" from e1 and REGISTER "a/b"  *)
(* from e2 have been handled and the broker has confirmed the subscription *)
InitSubscribed ==
    /\ tIndex = [contents |-> [i \in {1} |-> AB], next_id |-> 1]
    /\ tTree = [f \in Filters |-> IF f = AHash THEN {1} ELSE {}]
    /\ clients = [e \in Endpoints |-> CASE e = "e1" -> 1 [] e = "e2" -> 2 [] OTHER -> 0]
    /\ sessions = <<[NewClient("e1") EXCEPT !.registered = {0}],
                    [NewClient("e2") EXCEPT !.registered = {1}]>>
    /\ hs = <<>>
    /\ gs = <<>>
    /\ dlvs = <<>>
    /\ out = [e \in Endpoints |->
                 CASE e = "e1" -> <<NewConnackMessage, NewSubackMessage(0, 7, "ok")>>
                   [] e = "e2" -> <<NewConnackMessage, NewRegackMessage(1, 7)>>
                   [] OTHER -> <<>>]
    /\ pubs = <<>>
    /\ bsub = [f \in Filters |-> IF f = AHash THEN "conf" ELSE "none"]
    /\ startCalls = [f \in Filters |-> IF f = AHash THEN 1 ELSE 0]
    /\ firsts = [f \in Filters |-> IF f = AHash THEN 1 ELSE 0]
    /\ parked = <<>>
    /\ net \in {n \in [Endpoints -> {"ok", "err"}] : n["e2"] = "ok" /\ n["e3"] = "ok"}
    /\ acked = [e \in Endpoints |-> 0]
    /\ crashed = FALSE

(* The gateway after CONNECT from e1, e2 and e3, SUBSCRIBE "a/#" from e1   *)
(* and SUBSCRIBE "a/b" from e2 and from e3, all confirmed by the broker;   *)
(* the link to e1 works, fails or blocks                                   *)
InitFan ==
    /\ tIndex = [contents |-> [i \in {1} |-> AB], next_id |-> 1]
    /\ tTree = [f \in Filters |-> CASE f = AHash -> {1} [] f = AB -> {2, 3} [] OTHER -> {}]
    /\ clients = [e \in Endpoints |-> CASE e = "e1" -> 1 [] e = "e2" -> 2 [] OTHER -> 3]
    /\ sessions = <<[NewClient("e1") EXCEPT !.registered = {0}],
                    [NewClient("e2") EXCEPT !.registered = {1}],
                    [NewClient("e3") EXCEPT !.registered = {1}]>>
    /\ hs = <<>>
    /\ gs = <<>>
    /\ dlvs = <<>>
    /\ out = [e \in Endpoints |->
                 IF e = "e1" THEN <<NewConnackMessage, NewSubackMessage(0, 7, "ok")>>
                 ELSE <<NewConnackMessage, NewSubackMessage(1, 7, "ok")>>]
    /\ pubs = <<>>
    /\ bsub = [f \in Filters |-> IF f \in {AHash, AB} THEN "conf" ELSE "none"]
    /\ startCalls = [f \in Filters |-> IF f \in {AHash, AB} THEN 1 ELSE 0]
    /\ firsts = [f \in Filters |-> IF f \in {AHash, AB} THEN 1 ELSE 0]
    /\ parked = <<>>
    /\ net \in {n \in [Endpoints -> {"ok", "err", "block"}] :
                   n["e2"] = "ok" /\ n["e3"] = "ok"}
    /\ acked = [e \in Endpoints |-> 0]
    /\ crashed = FALSE

(* The gateway after CONNECT from e1 and e2 and SUBSCRIBE "a/#" from e1,    *)
(* confirmed by the broker; no topic name has an id yet                    *)
InitWildcard ==
    /\ tIndex = EmptyIndex
    /\ tTree = [f \in Filters |-> IF f = AHash THEN {1} ELSE {}]
    /\ clients = [e \in Endpoints |-> CASE e = "e1" -> 1 [] e = "e2" -> 2 [] OTHER -> 0]
    /\ sessions = <<[NewClient("e1") EXCEPT !.registered = {0}], NewClient("e2")>>
    /\ hs = <<>>
    /\ gs = <<>>
    /\ dlvs = <<>>
    /\ out = [e \in Endpoints |->
                 CASE e = "e1" -> <<NewConnackMessage, NewSubackMessage(0, 7, "ok")>>
                   [] e = "e2" -> <<NewConnackMessage>>
                   [] OTHER -> <<>>]
    /\ pubs = <<>>
    /\ bsub = [f \in Filters |-> IF f = AHash THEN "conf" ELSE "none"]
    /\ startCalls = [f \in Filters |-> IF f = AHash THEN 1 ELSE 0]
    /\ firsts = [f \in Filters |-> IF f = AHash THEN 1 ELSE 0]
    /\ parked = <<>>
    /\ net \in [Endpoints -> {"ok"}]
    /\ acked = [e \in Endpoints |-> 0]
    /\ crashed = FALSE

----------------------------------------------------------------------------
(* Specifications *)

AllPackets ==
    ConnectPackets \cup RegisterPackets \cup RegackPackets \cup PublishPackets
    \cup SubscribePackets \cup PingreqPackets \cup DisconnectPackets \cup InertPackets

(* The steps of a handler that are the gateway's own: all but the arrival  *)
(* of a broker receipt                                                     *)
RunStep(h) ==
    \/ CONNECT_AddClient(h)
    \/ CONNECT_Write(h)
    \/ REGISTER_containsTopic(h)
    \/ REGISTER_putTopic(h)
    \/ REGISTER_getId(h)
    \/ REGISTER_Register(h)
    \/ REGISTER_Write(h)
    \/ REGACK_Fetch(h)
    \/ REGACK_Write(h)
    \/ PUBLISH_Publish(h)
    \/ SUBSCRIBE_getId(h)
    \/ SUBSCRIBE_putTopic(h)
    \/ SUBSCRIBE_AddSubscription(h)
    \/ SUBSCRIBE_Upstream(h)
    \/ SUBSCRIBE_Register(h)
    \/ SUBSCRIBE_Write(h)
    \/ PINGREQ_Write(h)

publishStep(g) ==
    \/ publish_getId(g)
    \/ publish_Registered(g)
    \/ publish_WritePublish(g)
    \/ publish_AddPendingMessage(g)
    \/ publish_WriteRegister(g)

(* From construction: any datagram from e1 or e2, and broker deliveries.   *)
(* (No pending message can be acknowledged within MaxPackets datagrams of  *)
(* construction; REGACK_Write is exercised by SpecSubscribed.)             *)
Next ==
    \/ \E ep \in {"e1", "e2"}, m \in AllPackets : OnPacket(ep, m)
    \/ \E h \in DOMAIN hs : Panic(h)
    \/ \E h \in DOMAIN hs : CONNECT_AddClient(h)
    \/ \E h \in DOMAIN hs : CONNECT_Write(h)
    \/ \E h \in DOMAIN hs : REGISTER_containsTopic(h)
    \/ \E h \in DOMAIN hs : REGISTER_putTopic(h)
    \/ \E h \in DOMAIN hs : REGISTER_getId(h)
    \/ \E h \in DOMAIN hs : REGISTER_Register(h)
    \/ \E h \in DOMAIN hs : REGISTER_Write(h)
    \/ \E h \in DOMAIN hs : REGACK_Fetch(h)
    \/ \E h \in DOMAIN hs : PUBLISH_Publish(h)
    \/ \E h \in DOMAIN hs : PUBLISH_Receipt(h)
    \/ \E h \in DOMAIN hs : SUBSCRIBE_getId(h)
    \/ \E h \in DOMAIN hs : SUBSCRIBE_putTopic(h)
    \/ \E h \in DOMAIN hs : SUBSCRIBE_AddSubscription(h)
    \/ \E h \in DOMAIN hs : SUBSCRIBE_Upstream(h)
    \/ \E h \in DOMAIN hs : SUBSCRIBE_Receipt(h)
    \/ \E h \in DOMAIN hs : SUBSCRIBE_Register(h)
    \/ \E h \in DOMAIN hs : SUBSCRIBE_Write(h)
    \/ \E h \in DOMAIN hs : PINGREQ_Write(h)
    \/ \E top \in Names, data \in Payloads : distribute(top, data)
    \/ \E g \in DOMAIN gs : publish_getId(g)
    \/ \E g \in DOMAIN gs : publish_Registered(g)
    \/ \E g \in DOMAIN gs : publish_WritePublish(g)
    \/ \E g \in DOMAIN gs : publish_AddPendingMessage(g)
    \/ \E g \in DOMAIN gs : publish_WriteRegister(g)

Spec == Init /\ [][Next]_vars

(* From two connected clients: any datagram from e1 or e2 *)
NextConnected ==
    \/ \E ep \in {"e1", "e2"}, m \in AllPackets : OnPacket(ep, m)
    \/ \E h \in DOMAIN hs : CONNECT_AddClient(h)
    \/ \E h \in DOMAIN hs : CONNECT_Write(h)
    \/ \E h \in DOMAIN hs : REGISTER_containsTopic(h)
    \/ \E h \in DOMAIN hs : REGISTER_putTopic(h)
    \/ \E h \in DOMAIN hs : REGISTER_getId(h)
    \/ \E h \in DOMAIN hs : REGISTER_Register(h)
    \/ \E h \in DOMAIN hs : REGISTER_Write(h)
    \/ \E h \in DOMAIN hs : REGACK_Fetch(h)
    \/ \E h \in DOMAIN hs : PUBLISH_Publish(h)
    \/ \E h \in DOMAIN hs : PUBLISH_Receipt(h)
    \/ \E h \in DOMAIN hs : SUBSCRIBE_getId(h)
    \/ \E h \in DOMAIN hs : SUBSCRIBE_putTopic(h)
    \/ \E h \in DOMAIN hs : SUBSCRIBE_AddSubscription(h)
    \/ \E h \in DOMAIN hs : SUBSCRIBE_Upstream(h)
    \/ \E h \in DOMAIN hs : SUBSCRIBE_Receipt(h)
    \/ \E h \in DOMAIN hs : SUBSCRIBE_Register(h)
    \/ \E h \in DOMAIN hs : SUBSCRIBE_Write(h)
    \/ \E h \in DOMAIN hs : PINGREQ_Write(h)

SpecConnected == InitConnected /\ [][NextConnected]_vars

(* From two connected clients: their SUBSCRIBEs *)
NextSubscribe ==
    \/ \E ep \in {"e1", "e2"}, m \in SubscribePackets : OnPacket(ep, m)
    \/ \E h \in DOMAIN hs : SUBSCRIBE_getId(h)
    \/ \E h \in DOMAIN hs : SUBSCRIBE_putTopic(h)
    \/ \E h \in DOMAIN hs : SUBSCRIBE_AddSubscription(h)
    \/ \E h \in DOMAIN hs : SUBSCRIBE_Upstream(h)
    \/ \E h \in DOMAIN hs : SUBSCRIBE_Receipt(h)
    \/ \E h \in DOMAIN hs : SUBSCRIBE_Register(h)
    \/ \E h \in DOMAIN hs : SUBSCRIBE_Write(h)

SpecSubscribe == InitConnected /\ [][NextSubscribe]_vars

(* From two connected clients: one datagram of each handled type *)
WaitPackets ==
    {Packet("CONNECT", "dev1", NoTopic, 0, 0, ""),
     Packet("REGISTER", "", AB, 0, 7, ""),
     Packet("REGACK", "", NoTopic, 1, 0, ""),
     Packet("PUBLISH", "", NoTopic, 1, 0, "p1"),
     Packet("SUBSCRIBE", "", AB, 0, 7, ""),
     Packet("SUBSCRIBE", "", AHash, 0, 7, ""),
     Packet("PINGREQ", "", NoTopic, 0, 0, "")}

NextWait ==
    \/ \E ep \in {"e1", "e2"}, m \in WaitPackets : OnPacket(ep, m)
    \/ \E h \in DOMAIN hs : CONNECT_AddClient(h)
    \/ \E h \in DOMAIN hs : CONNECT_Write(h)
    \/ \E h \in DOMAIN hs : REGISTER_containsTopic(h)
    \/ \E h \in DOMAIN hs : REGISTER_putTopic(h)
    \/ \E h \in DOMAIN hs : REGISTER_getId(h)
    \/ \E h \in DOMAIN hs : REGISTER_Register(h)
    \/ \E h \in DOMAIN hs : REGISTER_Write(h)
    \/ \E h \in DOMAIN hs : REGACK_Fetch(h)
    \/ \E h \in DOMAIN hs : PUBLISH_Publish(h)
    \/ \E h \in DOMAIN hs : PUBLISH_Receipt(h)
    \/ \E h \in DOMAIN hs : SUBSCRIBE_getId(h)
    \/ \E h \in DOMAIN hs : SUBSCRIBE_putTopic(h)
    \/ \E h \in DOMAIN hs : SUBSCRIBE_AddSubscription(h)
    \/ \E h \in DOMAIN hs : SUBSCRIBE_Upstream(h)
    \/ \E h \in DOMAIN hs : SUBSCRIBE_Receipt(h)
    \/ \E h \in DOMAIN hs : SUBSCRIBE_Register(h)
    \/ \E h \in DOMAIN hs : SUBSCRIBE_Write(h)
    \/ \E h \in DOMAIN hs : PINGREQ_Write(h)

SpecWait == InitConnected /\ [][NextWait]_vars

(* From a subscribed client: broker deliveries on "a/b", whose id the      *)
(* client has not registered, and the client's REGACKs                     *)
NextSubscribed ==
    \/ /\ Len(hs) - acked["e1"] < MaxStrayRegacks
       /\ acked["e1"] > 0
       /\ OnPacket("e1", Packet("REGACK", "", NoTopic, 1, 0, ""))
    \/ ClientRegack("e1")
    \/ \E h \in DOMAIN hs : REGACK_Fetch(h)
    \/ \E h \in DOMAIN hs : REGACK_Write(h)
    \/ \E data \in Payloads : distribute(AB, data)
    \/ \E g \in DOMAIN gs : publish_getId(g)
    \/ \E g \in DOMAIN gs : publish_Registered(g)
    \/ \E g \in DOMAIN gs : publish_AddPendingMessage(g)
    \/ \E g \in DOMAIN gs : publish_WriteRegister(g)

(* Every runnable goroutine is scheduled, and the client answers *)
GatewayStep ==
    \/ ClientRegack("e1")
    \/ \E h \in DOMAIN hs : RunStep(h)
    \/ \E g \in DOMAIN gs : publishStep(g)

SpecSubscribed == InitSubscribed /\ [][NextSubscribed]_vars /\ WF_vars(GatewayStep)

(* From three subscribed clients: broker deliveries *)
NextFan ==
    \/ \E top \in Names : Len(dlvs) < MaxFanDeliveries /\ distribute(top, "p1")
    \/ \E g \in DOMAIN gs : publish_getId(g)
    \/ \E g \in DOMAIN gs : publish_Registered(g)
    \/ \E g \in DOMAIN gs : publish_WritePublish(g)
    \/ \E g \in DOMAIN gs : publish_AddPendingMessage(g)
    \/ \E g \in DOMAIN gs : publish_WriteRegister(g)

SpecFan == InitFan /\ [][NextFan]_vars

(* From construction: CONNECTs with a valid client id and PINGREQs from e1 *)
(* and e2, and CONNECTs with an invalid client id from e3                  *)
NextConnect ==
    \/ \E ep \in {"e1", "e2"} : OnPacket(ep, Packet("CONNECT", "dev1", NoTopic, 0, 0, ""))
    \/ \E ep \in {"e1", "e2"}, m \in PingreqPackets : OnPacket(ep, m)
    \/ OnPacket("e3", Packet("CONNECT", "", NoTopic, 0, 0, ""))
    \/ \E h \in DOMAIN hs : CONNECT_AddClient(h)
    \/ \E h \in DOMAIN hs : CONNECT_Write(h)
    \/ \E h \in DOMAIN hs : PINGREQ_Write(h)

SpecConnect == Init /\ [][NextConnect]_vars

(* From two connected clients: their REGISTERs and PUBLISHes *)
NextHandshake ==
    \/ \E ep \in {"e1", "e2"}, m \in RegisterPackets \cup PublishPackets : OnPacket(ep, m)
    \/ \E h \in DOMAIN hs : REGISTER_containsTopic(h)
    \/ \E h \in DOMAIN hs : REGISTER_putTopic(h)
    \/ \E h \in DOMAIN hs : REGISTER_getId(h)
    \/ \E h \in DOMAIN hs : REGISTER_Register(h)
    \/ \E h \in DOMAIN hs : REGISTER_Write(h)
    \/ \E h \in DOMAIN hs : PUBLISH_Publish(h)
    \/ \E h \in DOMAIN hs : PUBLISH_Receipt(h)

SpecHandshake == InitConnected /\ [][NextHandshake]_vars

(* From a wildcard subscriber and a second client: their REGISTERs, and    *)
(* broker deliveries                                                       *)
NextRegistered ==
    \/ \E ep \in {"e1", "e2"}, m \in RegisterPackets : OnPacket(ep, m)
    \/ \E h \in DOMAIN hs : REGISTER_containsTopic(h)
    \/ \E h \in DOMAIN hs : REGISTER_putTopic(h)
    \/ \E h \in DOMAIN hs : REGISTER_getId(h)
    \/ \E h \in DOMAIN hs : REGISTER_Register(h)
    \/ \E h \in DOMAIN hs : REGISTER_Write(h)
    \/ \E top \in Names : Len(dlvs) < MaxFanDeliveries /\ distribute(top, "p1")
    \/ \E g \in DOMAIN gs : publish_getId(g)
    \/ \E g \in DOMAIN gs : publish_Registered(g)
    \/ \E g \in DOMAIN gs : publish_WritePublish(g)
    \/ \E g \in DOMAIN gs : publish_AddPendingMessage(g)
    \/ \E g \in DOMAIN gs : publish_WriteRegister(g)

SpecRegistered == InitWildcard /\ [][NextRegistered]_vars

(* From a subscribed client: broker deliveries on "a/b", the client's      *)
(* answers to the gateway's REGISTERs, and a REGISTER of "a/b" or an       *)
(* unsolicited REGACK for its id from the client at any time               *)
NextInFlight ==
    \/ /\ Len(hs) - acked["e1"] < MaxStrayRegacks
       /\ \/ OnPacket("e1", Packet("REGACK", "", NoTopic, 1, 0, ""))
          \/ OnPacket("e1", Packet("REGISTER", "", AB, 0, 7, ""))
    \/ ClientRegack("e1")
    \/ \E h \in DOMAIN hs : REGISTER_containsTopic(h)
    \/ \E h \in DOMAIN hs : REGISTER_getId(h)
    \/ \E h \in DOMAIN hs : REGISTER_Register(h)
    \/ \E h \in DOMAIN hs : REGISTER_Write(h)
    \/ \E h \in DOMAIN hs : REGACK_Fetch(h)
    \/ \E h \in DOMAIN hs : REGACK_Write(h)
    \/ Len(dlvs) < MaxFanDeliveries /\ distribute(AB, "p1")
    \/ \E g \in DOMAIN gs : publish_getId(g)
    \/ \E g \in DOMAIN gs : publish_Registered(g)
    \/ \E g \in DOMAIN gs : publish_WritePublish(g)
    \/ \E g \in DOMAIN gs : publish_AddPendingMessage(g)
    \/ \E g \in DOMAIN gs : publish_WriteRegister(g)

SpecInFlight == InitSubscribed /\ [][NextInFlight]_vars

(* From a subscribed client: its DISCONNECT, and broker deliveries *)
NextDisconnect ==
    \/ \E m \in DisconnectPackets : OnPacket("e1", m)
    \/ \E top \in Names, data \in Payloads : distribute(top, data)
    \/ \E g \in DOMAIN gs : publish_getId(g)
    \/ \E g \in DOMAIN gs : publish_Registered(g)
    \/ \E g \in DOMAIN gs : publish_WritePublish(g)
    \/ \E g \in DOMAIN gs : publish_AddPendingMessage(g)
    \/ \E g \in DOMAIN gs : publish_WriteRegister(g)

SpecDisconnect == InitSubscribed /\ [][NextDisconnect]_vars

(* From three subscribed clients: datagrams of the types whose handlers    *)
(* only log, unrecognised ones, and PINGREQs                               *)
NextInert ==
    \/ \E ep \in Endpoints, m \in InertPackets : OnPacket(ep, m)
    \/ \E ep \in Endpoints, m \in PingreqPackets : OnPacket(ep, m)
    \/ \E h \in DOMAIN hs : PINGREQ_Write(h)

SpecInert == InitFan /\ [][NextInert]_vars

(* From the subscribed client e1: a second CONNECT, then a REGISTER of     *)
(* "a/b", while the broker delivers on "a/b"                               *)
NextReconnect ==
    \/ OnPacket("e1", Packet("CONNECT", "dev1", NoTopic, 0, 0, ""))
    \/ OnPacket("e1", Packet("REGISTER", "", AB, 0, 7, ""))
    \/ \E h \in DOMAIN hs : CONNECT_AddClient(h)
    \/ \E h \in DOMAIN hs : CONNECT_Write(h)
    \/ \E h \in DOMAIN hs : REGISTER_containsTopic(h)
    \/ \E h \in DOMAIN hs : REGISTER_getId(h)
    \/ \E h \in DOMAIN hs : REGISTER_Register(h)
    \/ \E h \in DOMAIN hs : REGISTER_Write(h)
    \/ Len(dlvs) < MaxFanDeliveries /\ distribute(AB, "p1")
    \/ \E g \in DOMAIN gs : publish_getId(g)
    \/ \E g \in DOMAIN gs : publish_Registered(g)
    \/ \E g \in DOMAIN gs : publish_WritePublish(g)
    \/ \E g \in DOMAIN gs : publish_AddPendingMessage(g)
    \/ \E g \in DOMAIN gs : publish_WriteRegister(g)

SpecReconnect == InitSubscribed /\ [][NextReconnect]_vars

----------------------------------------------------------------------------
(* Claims *)

Max(S) == CHOOSE x \in S : \A y \in S : y <= x

(* C1: each topic name is ever assigned exactly one id, also when two      *)
(* handlers concurrently see the same unseen name (no id has two names by  *)
(* the registry being a map from ids).  Checked under SpecConnected.       *)
C1_IdUniqueness ==
    \A i, j \in DOMAIN tIndex.contents :
        tIndex.contents[i] = tIndex.contents[j] => i = j

(* C2: a PUBLISH sent to a client for a broker delivery carries the        *)
(* delivery's payload, and either the session had registered the topic's   *)
(* id (publish found it registered, and the id is the registry's id of the *)
(* delivered topic) or a REGISTER with that id and the topic's name was    *)
(* sent to the client before it.  Checked under SpecFan.                   *)
C2_DeferredDelivery ==
    \A e \in Endpoints : \A i \in DOMAIN out[e] :
        out[e][i].type = "PUBLISH" =>
            LET dg == out[e][i]
                top == dlvs[dg.dlv].top
            IN /\ dg.data = dlvs[dg.dlv].data
               /\ \/ dg.note = "direct" /\ getTopic(dg.topicid) = top
                  \/ \E j \in 1..(i - 1) :
                        /\ out[e][j].type = "REGISTER"
                        /\ out[e][j].topicid = dg.topicid
                        /\ out[e][j].name = top

Sent(c, pm) ==
    \E i \in DOMAIN out[sessions[c].addr] :
        out[sessions[c].addr][i] = PublishDatagram(pm, "regack")

InHand(c, pm) ==
    \E h \in DOMAIN hs : hs[h].pc = "a_write" /\ hs[h].client = c /\ hs[h].pm = pm

Superseded(k) ==
    \E j \in DOMAIN parked :
        /\ j > k
        /\ parked[j].client = parked[k].client
        /\ parked[j].pm.topicid = parked[k].pm.topicid

LinkWorks(k) == net[sessions[parked[k].client].addr] = "ok"

Resolved(k) == Sent(parked[k].client, parked[k].pm) \/ Superseded(k)

(* C3 as claimed: with the client answering every REGISTER and the link   *)
(* working, every message publish() parked for a session is eventually     *)
(* sent to it as a PUBLISH, for any number of deliveries on the topic      *)
(* before the REGACK.  Checked under SpecSubscribed.                       *)
C3_EveryParkedSent ==
    \A k \in 1..(MaxDeliveries + 1) :
        (k \in DOMAIN parked /\ LinkWorks(k))
            ~> (k \in DOMAIN parked /\ Sent(parked[k].client, parked[k].pm))

(* C3 as amended: with the client answering every REGISTER and the link    *)
(* working, every message publish() parked for a session is eventually     *)
(* sent to it as a PUBLISH or has been superseded by a later message       *)
(* parked for the same session and topic id.  Checked under SpecSubscribed *)
(* (weak fairness of the gateway's goroutines and of the client's answer). *)
C3_ParkedSentUnlessSuperseded ==
    \A k \in 1..(MaxDeliveries + 1) :
        (k \in DOMAIN parked /\ LinkWorks(k)) ~> (k \in DOMAIN parked /\ Resolved(k))

(* C3's case: a parked message was sent after another had been superseded *)
C3_Witness ==
    /\ Len(parked) = 2
    /\ Superseded(1)
    /\ ~Sent(parked[1].client, parked[1].pm)
    /\ Sent(parked[2].client, parked[2].pm)

(* C4: a session holds at most one pending message per topic id, the one   *)
(* parked last for it; a REGACK's fetch takes it out of the slot, so it is *)
(* sent once, and a REGACK that finds the slot empty sends nothing: every  *)
(* PUBLISH sent on a REGACK is a parked message.  Checked under            *)
(* SpecSubscribed.                                                         *)
C4_PendingSupersession ==
    /\ \A c \in DOMAIN sessions : \A pm \in sessions[c].pending :
          LET ks == {k \in DOMAIN parked : /\ parked[k].client = c
                                           /\ parked[k].pm.topicid = pm.topicid}
          IN /\ PendingFor(c, pm.topicid) = {pm}
             /\ ks # {}
             /\ parked[Max(ks)].pm = pm
             /\ ~Sent(c, pm)
             /\ ~InHand(c, pm)
    /\ \A h \in DOMAIN hs : hs[h].pc = "a_write" =>
          /\ \E k \in DOMAIN parked : parked[k] = [client |-> hs[h].client, pm |-> hs[h].pm]
          /\ ~Sent(hs[h].client, hs[h].pm)
          /\ \A h2 \in DOMAIN hs : hs[h2].pc = "a_write" /\ hs[h2].pm = hs[h].pm => h2 = h
    /\ \A e \in Endpoints : \A i \in DOMAIN out[e] :
          out[e][i].type = "PUBLISH" /\ out[e][i].note = "regack" =>
              /\ \E k \in DOMAIN parked :
                    /\ sessions[parked[k].client].addr = e
                    /\ out[e][i] = PublishDatagram(parked[k].pm, "regack")
              /\ \A j \in DOMAIN out[e] : out[e][j] = out[e][i] => j = i

(* C4's case: m1 then m2 were parked for one topic id, a REGACK fetched    *)
(* and sent m2, and a second REGACK for that id is about to fetch          *)
C4_Witness ==
    /\ Len(parked) = 2
    /\ Superseded(1)
    /\ Sent(parked[2].client, parked[2].pm)
    /\ \E h \in DOMAIN hs : /\ hs[h].pc = "a_fetch"
                            /\ hs[h].topicid = parked[2].pm.topicid
                            /\ PendingFor(parked[2].client, parked[2].pm.topicid) = {}

(* C5: for every filter at most one AddSubscription call returned first =  *)
(* true, the one that created it, and handle_SUBSCRIBE made at most one    *)
(* StartSubscription call for it.  Checked under SpecSubscribe.            *)
C5_FirstSubscriberOnce ==
    \A f \in Filters :
        /\ firsts[f] <= 1
        /\ startCalls[f] <= firsts[f]
        /\ tTree[f] # {} => firsts[f] = 1

(* C5's case: two sessions subscribed to one filter, both handlers done *)
C5_Witness ==
    /\ \E f \in Filters : Cardinality(tTree[f]) = 2 /\ startCalls[f] = 1
    /\ Len(hs) = 2
    /\ \A h \in DOMAIN hs : hs[h] = DoneH

(* C6: no SUBACK is sent for a SUBSCRIBE whose upstream subscribe failed   *)
(* (NewTopicFilter or StartSubscription error).  Checked under             *)
(* SpecSubscribe.                                                          *)
C6_NoSubackOnUpstreamFailure ==
    \A e \in Endpoints : \A i \in DOMAIN out[e] :
        out[e][i].type = "SUBACK" => out[e][i].note # "fail"

Address(g) == sessions[gs[g].client].addr

(* C7: distribute starts one publish goroutine per matching session; a     *)
(* goroutine that has not finished can take its next step whatever the     *)
(* others do, unless its own write is blocked; and one that finished with  *)
(* a working link has sent its PUBLISH or REGISTER.  Checked under SpecFan *)
(* (the link to e1 works, fails or blocks).                                *)
C7_FanOutIsolation ==
    /\ \A d \in DOMAIN dlvs :
          LET G == {g \in DOMAIN gs : gs[g].dlv = d}
          IN /\ {gs[g].client : g \in G} = SubscribersOf(dlvs[d].top)
             /\ Cardinality(G) = Cardinality(SubscribersOf(dlvs[d].top))
    /\ \A g \in DOMAIN gs :
          /\ gs[g].pc # "done"
          /\ ~(gs[g].pc \in {"write_pm", "write_rm"} /\ net[Address(g)] = "block")
          => ENABLED publishStep(g)
    /\ \A g \in DOMAIN gs :
          gs[g].pc = "done" /\ net[Address(g)] = "ok" =>
              \E i \in DOMAIN out[Address(g)] :
                  /\ out[Address(g)][i].type \in {"PUBLISH", "REGISTER"}
                  /\ out[Address(g)][i].dlv = gs[g].dlv

(* C7's case: three sessions match, the write to e1 is blocked or failed   *)
(* and nothing reached e1, and the other two have their PUBLISH            *)
C7_Witness ==
    /\ net["e1"] # "ok"
    /\ Len(gs) = 3
    /\ gs[1].pc \in {"write_pm", "write_rm", "done"}
    /\ Len(out["e1"]) = 2
    /\ \A g \in {2, 3} : gs[g].pc = "done" /\ out[Address(g)][3].type = "PUBLISH"

C9_UnknownClientDropped ==
    /\ ~crashed
    /\ \A i \in DOMAIN pubs : clients[pubs[i].from] # 0
    /\ \A e \in Endpoints : clients[e] = 0 => out[e] = <<>>
    /\ sessions = <<>> => tIndex = EmptyIndex /\ \A f \in Filters : tTree[f] = {}

(* C10: no broker publish is made for a client PUBLISH whose topic id has  *)
(* no entry in the registry.  Checked under Spec.                          *)
C10_UnknownTopicIdDropped ==
    \A i \in DOMAIN pubs : pubs[i].topicid \in DOMAIN tIndex.contents
Connacks(e) == Len(SelectSeq(out[e], LAMBDA dg : dg.type = "CONNACK"))

(* C11: a CONNECT whose client id fails validation (here: those from e3)   *)
(* creates no session and gets no reply; a CONNECT with a valid id creates *)
(* one session, and the session registry maps the endpoint to a session of *)
(* that endpoint before the CONNACK is written.  Checked under SpecConnect. *)
C11_ConnectHandshake ==
    /\ clients["e3"] = 0
    /\ out["e3"] = <<>>
    /\ \A c \in DOMAIN sessions : sessions[c] = NewClient(sessions[c].addr) /\ sessions[c].addr # "e3"
    /\ Len(sessions) = Connacks("e1") + Connacks("e2")
                         + Cardinality({h \in DOMAIN hs : hs[h].pc = "c_write"})
    /\ \A h \in DOMAIN hs : hs[h].pc = "c_write" =>
          clients[hs[h].ep] # 0 /\ sessions[clients[hs[h].ep]].addr = hs[h].ep
    /\ \A e \in Endpoints : Connacks(e) > 0 =>
          clients[e] # 0 /\ sessions[clients[e]].addr = e

(* C11's case: an invalid CONNECT from e3 and a valid one from e1 have     *)
(* both been handled                                                       *)
C11_Witness ==
    /\ Len(hs) = 2
    /\ \A h \in DOMAIN hs : hs[h] = DoneH
    /\ Len(sessions) = 1
    /\ out["e1"] = <<NewConnackMessage>>
    /\ out["e2"] = <<>>
Resolves(topicid, topic) ==
    /\ topicid # 0
    /\ topicid \in DOMAIN tIndex.contents
    /\ tIndex.contents[topicid] = topic

RegisterAnswered ==
    /\ \A h \in DOMAIN hs : hs[h].pc \in {"r_client", "r_write"} =>
          /\ Resolves(hs[h].topicid, hs[h].topic)
          /\ hs[h].msgid \in MsgIds
          /\ hs[h].pc = "r_write" => Registered(hs[h].client, hs[h].topicid)
    /\ \A e \in Endpoints : \A i \in DOMAIN out[e] :
          out[e][i].type = "REGACK" =>
              /\ out[e][i].topicid # 0
              /\ getTopic(out[e][i].topicid) \in Names
              /\ out[e][i].msgid \in MsgIds

PublishedOnce ==
    \/ pubs' = pubs
    \/ \E h \in DOMAIN hs :
          /\ hs[h].pc = "p_pub"
          /\ hs'[h].pc = "p_wait"
          /\ pubs' = Append(pubs, [topic |-> getTopic(hs[h].topicid), data |-> hs[h].data,
                                   from |-> hs[h].ep, topicid |-> hs[h].topicid])

RegackWritten ==
    \A e \in Endpoints :
        (Len(out'[e]) > Len(out[e]) /\ out'[e][Len(out'[e])].type = "REGACK") =>
            \E h \in DOMAIN hs :
                /\ hs[h].pc = "r_write"
                /\ hs[h].ep = e
                /\ Resolves(hs[h].topicid, hs[h].topic)
                /\ out'[e] = Append(out[e], NewRegackMessage(hs[h].topicid, hs[h].msgid))
                /\ hs'[h].pc = "done"

(* C12: for a connected client, REGISTER(name, msgId) is answered with a   *)
(* REGACK that echoes msgId and carries an id X that is not 0, that the    *)
(* registry maps to name and that the handler registered on the session; a *)
(* client                                                                  *)
(* PUBLISH(X, payload) makes exactly one broker publish, on the name the   *)
(* registry holds for X (an entry once made is never changed) and with the *)
(* payload unchanged.  Checked under SpecHandshake.                        *)
C12_EndToEndHandshake ==
    /\ [](RegisterAnswered)
    /\ [][RegackWritten /\ PublishedOnce]_vars
    /\ [][\A i \in DOMAIN tIndex.contents :
             i \in DOMAIN tIndex'.contents /\ tIndex'.contents[i] = tIndex.contents[i]]_vars

(* C12's case: REGISTER "a/b" was answered with REGACK(1, 7) and the       *)
(* client's PUBLISH(1, p2) was published on "a/b"                          *)
C12_Witness ==
    /\ out["e1"] = <<NewConnackMessage, NewRegackMessage(1, 7)>>
    /\ pubs = <<[topic |-> AB, data |-> "p2", from |-> "e1", topicid |-> 1]>>
    /\ hs = <<DoneH, DoneH>>
RegisteredIdsOf(c, top) == {id \in sessions[c].registered : id # 0 /\ getTopic(id) = top}

RegisteredStays ==
    \A c \in DOMAIN sessions : sessions[c].registered \subseteq sessions'[c].registered

RegisteredOwn ==
    \A c \in DOMAIN sessions :
        sessions'[c].registered # sessions[c].registered =>
            \E h \in DOMAIN hs :
                /\ hs[h].pc \in {"r_client", "s_register"}
                /\ GetClient(hs[h].ep) = c
                /\ sessions'[c].registered = sessions[c].registered \cup {hs[h].topicid}
                /\ \A c2 \in DOMAIN sessions \ {c} :
                      sessions'[c2].registered = sessions[c2].registered

DirectIffRegistered ==
    \A g \in DOMAIN gs :
        gs[g].pc = "check" /\ gs'[g].pc # "check" =>
            gs'[g].pc = IF RegisteredIdsOf(gs[g].client, gs[g].top) # {}
                        THEN "write_pm" ELSE "add_pending"

(* C13: a topic id once registered on a session stays registered on it,    *)
(* and a registration changes the registered set of the handler's session  *)
(* only; publish() sends a delivery directly to a session that has         *)
(* registered an id of the delivered topic, and starts the REGISTER        *)
(* handshake for a session that has registered none.  Checked under        *)
(* SpecRegistered.                                                         *)
C13_RegistrationPerSession ==
    [][RegisteredStays /\ RegisteredOwn /\ DirectIffRegistered]_vars
SessionAt(e) == sessions[clients[e]]

RegisterSentBefore(e, i) ==
    \E j \in 1..(i - 1) :
        out[e][j].type = "REGISTER" /\ out[e][j].topicid = out[e][i].topicid

ParkedFor(e, i) ==
    \E k \in DOMAIN parked :
        /\ parked[k].client = clients[e]
        /\ out[e][i] = PublishDatagram(parked[k].pm, "regack")

(* C14 as claimed: a PUBLISH or REGACK sent to a session carries a topic   *)
(* id that the session has registered, or for which a REGISTER was sent to *)
(* it before and whose pending message is the one delivered.  Checked      *)
(* under SpecInFlight.                                                     *)
C14_RegisteredOrRegisterSent ==
    \A e \in {"e1", "e2"} : \A i \in DOMAIN out[e] :
        out[e][i].type \in {"PUBLISH", "REGACK"} =>
            \/ out[e][i].topicid \in SessionAt(e).registered
            \/ ParkedFor(e, i) /\ RegisterSentBefore(e, i)

(* C14 as amended: a PUBLISH or REGACK sent to a session carries a topic   *)
(* id that the session has registered, or is the message publish() parked  *)
(* in the session's pending slot for that id when it started the REGISTER  *)
(* handshake (the REGISTER itself is written after the message is parked). *)
(* Checked under SpecInFlight.                                             *)
C14_RegisteredOrParked ==
    \A e \in {"e1", "e2"} : \A i \in DOMAIN out[e] :
        out[e][i].type \in {"PUBLISH", "REGACK"} =>
            \/ out[e][i].topicid \in SessionAt(e).registered
            \/ ParkedFor(e, i)

(* C14's case: a REGACK answered the client's REGISTER, and a parked       *)
(* message was sent on the client's REGACK after the gateway's REGISTER    *)
C14_Witness ==
    \E i, j \in DOMAIN out["e1"] :
        /\ i > 2 /\ j > 2
        /\ out["e1"][i].type = "PUBLISH" /\ out["e1"][i].note = "regack"
        /\ RegisterSentBefore("e1", i)
        /\ out["e1"][j].type = "REGACK"
(* In SpecDisconnect every datagram handled is a DISCONNECT from e1 *)
Disconnected == Len(hs) > 0

(* C15: once the gateway has handled a DISCONNECT from e1, the session     *)
(* registry maps e1 to no session, no filter of the tree holds e1's        *)
(* session, and a broker delivery made from then on starts no publish to   *)
(* it.  Checked under SpecDisconnect.                                      *)
C15_SessionRemovedOnDisconnect ==
    /\ [](Disconnected =>
            /\ clients["e1"] = 0
            /\ \A f \in Filters : \A c \in tTree[f] : sessions[c].addr # "e1")
    /\ [][Disconnected =>
            \A g \in DOMAIN gs' \ DOMAIN gs : sessions[gs'[g].client].addr # "e1"]_vars
FanState ==
    /\ tIndex = [contents |-> [i \in {1} |-> AB], next_id |-> 1]
    /\ tTree = [f \in Filters |-> CASE f = AHash -> {1} [] f = AB -> {2, 3} [] OTHER -> {}]
    /\ clients = [e \in Endpoints |-> CASE e = "e1" -> 1 [] e = "e2" -> 2 [] OTHER -> 3]
    /\ sessions = <<[NewClient("e1") EXCEPT !.registered = {0}],
                    [NewClient("e2") EXCEPT !.registered = {1}],
                    [NewClient("e3") EXCEPT !.registered = {1}]>>
    /\ pubs = <<>> /\ gs = <<>> /\ dlvs = <<>> /\ parked = <<>>
    /\ \A f \in Filters : startCalls[f] = IF f \in {AHash, AB} THEN 1 ELSE 0
    /\ ~crashed

PingAnswered ==
    \A e \in Endpoints :
        \/ /\ out'[e] = out[e]
           /\ \A h \in DOMAIN hs :
                 (hs[h].pc = "g_write" /\ hs[h].ep = e /\ hs'[h].pc = "done") => net[e] = "err"
        \/ \E h \in DOMAIN hs :
              /\ hs[h].pc = "g_write" /\ hs[h].ep = e /\ hs'[h].pc = "done"
              /\ out'[e] = Append(out[e], NewPingResp)

(* C16: handling a datagram of a type whose handler only logs, or of an    *)
(* unrecognised type, leaves the registry, the tree, the session registry  *)
(* and every session unchanged, writes no datagram and makes no broker     *)
(* call (the handler has returned when the dispatcher returns); PINGREQ    *)
(* likewise changes no state and writes exactly one PINGRESP, to its       *)
(* sender.  Checked under SpecInert.                                       *)
C16_InertHandlers ==
    /\ [](FanState /\ \A h \in DOMAIN hs : hs[h] = DoneH \/ hs[h].pc = "g_write")
    /\ [][PingAnswered]_vars

(* C16's case: a datagram that is only logged was handled, and a PINGREQ   *)
(* from e2 was answered                                                    *)
C16_Witness ==
    /\ hs = <<DoneH, DoneH>>
    /\ out["e2"] = <<NewConnackMessage, NewSubackMessage(1, 7, "ok"), NewPingResp>>
    /\ Len(out["e1"]) = 2 /\ Len(out["e3"]) = 2
    /\ net["e1"] = "ok"
(* C17: whenever a SUBSCRIBE handler stands at the line commented "AG is   *)
(* subscribed at this point" (about to mark the session registered and to  *)
(* send SUBACK), the broker has confirmed the gateway's subscription to    *)
(* the handler's filter; for the first subscriber and for the others.      *)
(* Checked under SpecSubscribe.                                            *)
C17_SubscribedAtThisPoint ==
    \A h \in DOMAIN hs :
        hs[h].pc \in {"s_register", "s_write"} => bsub[hs[h].topic] = "conf"
(* C18: every PUBLISH and every REGISTER that publish() writes to a client *)
(* for a broker delivery carries a topic id other than 0 which the         *)
(* registry maps to the delivered topic's name, wildcard subscribers of    *)
(* never-registered topics included.  Checked under SpecFan.               *)
C18_DeliveredIdResolves ==
    \A e \in Endpoints : \A i \in DOMAIN out[e] :
        LET dg == out[e][i]
        IN (dg.type = "REGISTER" \/ (dg.type = "PUBLISH" /\ dg.note = "direct")) =>
              /\ dg.topicid # 0
              /\ getTopic(dg.topicid) = dlvs[dg.dlv].top
(* The steps of the REGACK handler h of a connected client *)
FetchStep(h) == hs[h].pc = "a_fetch" /\ hs'[h] # hs[h]

WriteStep(h) == hs[h].pc = "a_write" /\ hs'[h] # hs[h]

RegackFrame(h) ==
    LET c == clients[hs[h].ep]
        id == hs[h].topicid
    IN /\ tIndex' = tIndex /\ tTree' = tTree /\ clients' = clients
       /\ pubs' = pubs /\ Len(sessions') = Len(sessions)
       /\ \A d \in DOMAIN sessions :
             /\ sessions'[d].registered = sessions[d].registered
             /\ sessions'[d].addr = sessions[d].addr
             /\ d # c => sessions'[d] = sessions[d]
       /\ FetchStep(h) =>
             /\ out' = out
             /\ sessions'[c].pending = {p \in sessions[c].pending : p.topicid # id}
             /\ PendingFor(c, id) = {} => sessions' = sessions /\ hs'[h] = DoneH
             /\ PendingFor(c, id) # {} => hs'[h].pc = "a_write" /\ hs'[h].pm \in PendingFor(c, id)
       /\ WriteStep(h) =>
             /\ sessions' = sessions
             /\ hs'[h] = DoneH
             /\ \A e \in Endpoints : e # hs[h].ep => out'[e] = out[e]
             /\ \/ out'[hs[h].ep] = out[hs[h].ep]
                \/ out'[hs[h].ep] = Append(out[hs[h].ep], PublishDatagram(hs[h].pm, "regack"))

(* C19: handling a REGACK from a connected client empties that session's   *)
(* pending slot for the acknowledged id and changes nothing else (not the  *)
(* registered sets, the other sessions, the registry or the tree); it      *)
(* sends at most one PUBLISH, to the acknowledging session; with no        *)
(* pending message for the id it sends nothing and changes no state.       *)
(* Checked under SpecInFlight.                                             *)
C19_RegackFrame ==
    [][\A h \in DOMAIN hs : (FetchStep(h) \/ WriteStep(h)) => RegackFrame(h)]_vars

(* C19's case: a REGACK released the parked message of delivery 1 to e1,   *)
(* and the session's slot is empty                                         *)
C19_Witness ==
    /\ \E i \in DOMAIN out["e1"] :
          out["e1"][i] = PublishDatagram(NewPublishMessage(1, "p1", 1), "regack")
    /\ sessions[1].pending = {}
    /\ \A h \in DOMAIN hs : hs[h] = DoneH
(* C20: in every reachable state, a second CONNECT from a connected        *)
(* endpoint included, each session the Subscription Tree refers to is the  *)
(* session the Client Session Registry maps that session's endpoint to; so *)
(* when publish() checks the subscriber, an id the endpoint's current      *)
(* session has registered is registered on the subscriber.  Checked under  *)
(* SpecReconnect.                                                          *)
C20_TreeSessionIsCurrent ==
    /\ \A f \in Filters : \A c \in tTree[f] : clients[sessions[c].addr] = c
    /\ \A g \in DOMAIN gs :
          gs[g].pc = "check" =>
              (Registered(clients[sessions[gs[g].client].addr], gs[g].topicid)
                  => Registered(gs[g].client, gs[g].topicid))
====
